---- MODULE Spec2Model ----
(***************************************************************************)
(* Consumer-side OpenID associations (openid/association.py):              *)
(*   - Association / ConsumerAssociation and the derived expires_in,       *)
(*   - DiffieHelmanAssociator.associate, the one-round-trip handshake,     *)
(*   - BaseAssociationManager.associate / get_association / invalidate     *)
(*     over an abstract store (get_all, update, invalidate).               *)
(*                                                                         *)
(* An optional value (Python None or an object) is a sequence of length    *)
(* at most one: <<>> is None, <<v>> is v.  A handle is a positive number   *)
(* standing for an opaque string; the provider hands out a new one with    *)
(* every response (handles are unique per endpoint).                       *)
(***************************************************************************)
EXTENDS Integers, Sequences, FiniteSets, TLC

\* ------------------------------------------------------------- bounds
\* The clock runs from 0 to MaxTime.
MaxTime == 1
\* At most MaxPosts requests are posted to the provider in one behaviour.
MaxPosts == 2

\* Callers that may run operations of one manager concurrently.
Procs == {"c1", "c2"}
\* Provider endpoints.
Urls == {"u1", "u2"}

\* ------------------------------------------------------------- helpers
None == <<>>
Some(v) == <<v>>

Max(a, b) == IF a >= b THEN a ELSE b

\* The elements of a sequence, as a set.
Range(s) == {s[i] : i \in 1..Len(s)}

\* ------------------------------------------------- openid.util primitives
\* The Diffie-Hellman group of get_mod_gen (a small safe prime stands for
\* DiffieHellman.DEFAULT_MOD, with a generator of the whole group).
DEFAULT_MOD == 23
DEFAULT_GEN == 5

RECURSIVE PowMod(_, _, _)
\* pow(b, e, m)
PowMod(b, e, m) == IF e = 0 THEN 1 % m ELSE (b * PowMod(b, e - 1, m)) % m

\* DiffieHellman.createKeyExchange: the public value g^x mod p.
createKeyExchange(p, g, x) == PowMod(g, x, p)

\* DiffieHellman.decryptKeyExchange: the shared value spub^x mod p.
decryptKeyExchange(p, x, spub) == PowMod(spub, x, p)

RECURSIVE long2a(_)
\* A number as big-endian bytes (at least one byte).
long2a(n) == IF n < 256 THEN <<n>> ELSE Append(long2a(n \div 256), n % 256)

RECURSIVE a2long(_)
\* Big-endian bytes as a number.
a2long(bs) ==
    IF Len(bs) = 0 THEN 0
    ELSE (256 * a2long(SubSeq(bs, 1, Len(bs) - 1))) + bs[Len(bs)]

RECURSIVE BitXor(_, _)
\* Bitwise exclusive or of two naturals.
BitXor(a, b) ==
    IF a = 0 THEN b
    ELSE IF b = 0 THEN a
    ELSE (((a % 2) + (b % 2)) % 2) + (2 * BitXor(a \div 2, b \div 2))

\* strxor: byte-wise exclusive or; the lengths must agree.
strxorOk(a, b) == Len(a) = Len(b)
strxor(a, b) == [i \in 1..Len(a) |-> BitXor(a[i], b[i])]

RECURSIVE HashFold(_, _)
HashFold(h, bs) ==
    IF Len(bs) = 0 THEN h ELSE HashFold(((h * 31) + bs[1] + 7) % 256, Tail(bs))

\* sha1: a fixed-length digest of a byte string (one byte here).
sha1(bs) == <<HashFold(Len(bs) + 1, bs)>>

\* The padding character of base64 text; 0..63 are the alphabet's characters.
B64Pad == 64

RECURSIVE to_b64(_)
\* Bytes to base64 text: three bytes to four characters, padded with '='.
to_b64(bs) ==
    IF Len(bs) = 0 THEN <<>>
    ELSE IF Len(bs) = 1 THEN
        <<bs[1] \div 4, (bs[1] % 4) * 16, B64Pad, B64Pad>>
    ELSE IF Len(bs) = 2 THEN
        <<bs[1] \div 4, ((bs[1] % 4) * 16) + (bs[2] \div 16),
          (bs[2] % 16) * 4, B64Pad>>
    ELSE <<bs[1] \div 4, ((bs[1] % 4) * 16) + (bs[2] \div 16),
           ((bs[2] % 16) * 4) + (bs[3] \div 64), bs[3] % 64>>
         \o to_b64(SubSeq(bs, 4, Len(bs)))

\* Whether base64 text decodes: whole groups of four, padding only at the end.
from_b64Ok(cs) ==
    /\ Len(cs) % 4 = 0
    /\ \A i \in 1..Len(cs) : cs[i] \in 0..B64Pad
    /\ \A i \in 1..Len(cs) :
          cs[i] = B64Pad =>
             /\ i > Len(cs) - 2
             /\ \A j \in i..Len(cs) : cs[j] = B64Pad

RECURSIVE from_b64(_)
\* Base64 text to bytes (of text that decodes).
from_b64(cs) ==
    IF Len(cs) = 0 THEN <<>>
    ELSE LET b1 == (cs[1] * 4) + (cs[2] \div 16)
             b2 == ((cs[2] % 16) * 16) + (cs[3] \div 4)
             b3 == ((cs[3] % 4) * 64) + cs[4]
             rest == from_b64(SubSeq(cs, 5, Len(cs)))
         IN IF cs[3] = B64Pad THEN <<b1>>
            ELSE IF cs[4] = B64Pad THEN <<b1, b2>>
            ELSE <<b1, b2, b3>> \o rest

\* int(s) of the decimal texts a provider may send; any other text, such as
\* "x", is not a number.
IntTexts == {"0", "1"}
ParseInt(s) == CASE s = "0" -> 0 [] s = "1" -> 1

\* ------------------------------------------------------------ Association
\* ConsumerAssociation.__init__ (with Association.__init__).
ConsumerAssociation(server_url, handle, secret, issued, lifetime) ==
    [server_url |-> server_url, handle |-> handle, secret |-> secret,
     issued |-> issued, lifetime |-> lifetime]

\* Association.from_expires_in, called on ConsumerAssociation at time t.
from_expires_in(expires_in, server_url, handle, secret, t) ==
    ConsumerAssociation(server_url, handle, secret, t, ParseInt(expires_in))

\* get_expires_in without the max(0, ...).
get_expires_in_NoClamp(a, t) == a.issued + a.lifetime - t

\* Association.get_expires_in at time t.
get_expires_in(a, t) == Max(0, a.issued + a.lifetime - t)

\* ------------------------------------------------ DiffieHelmanAssociator
\* The keys a parsed response (parsekv) may hold.
Keys == {"assoc_type", "assoc_handle", "expires_in", "session_type",
         "mac_key", "dh_server_public", "enc_mac_key"}

\* What a handshake ends in: an association, or the exception it raises
\* (with the key a ProtocolError names).
Returned(a) == [kind |-> "ok", key |-> "", assoc |-> Some(a)]
Raised(kind, key) == [kind |-> kind, key |-> key, assoc |-> None]

\* DiffieHelmanAssociator.get_mod_gen
get_mod_gen == <<DEFAULT_MOD, DEFAULT_GEN>>

\* The body posted by DiffieHelmanAssociator.associate with modulus p,
\* generator g and private key x.
RequestMod(p, g, x) ==
    LET cpub == createKeyExchange(p, g, x)
    IN  [mode |-> "associate", assoc_type |-> "HMAC-SHA1",
         session_type |-> "DH-SHA1",
         dh_modulus |-> to_b64(long2a(p)), dh_gen |-> to_b64(long2a(g)),
         dh_consumer_public |-> to_b64(long2a(cpub))]

\* The body posted with the modulus and generator of get_mod_gen.
Request(x) == RequestMod(get_mod_gen[1], get_mod_gen[2], x)

\* PlainSecret with a missing mac_key taken for an empty secret.
PlainSecret_Lenient(results) ==
    IF "mac_key" \notin DOMAIN results
    THEN [kind |-> "ok", key |-> "", secret |-> <<>>]
    ELSE IF ~from_b64Ok(results["mac_key"]) THEN Raised("DecodeError", "mac_key")
    ELSE [kind |-> "ok", key |-> "", secret |-> from_b64(results["mac_key"])]

\* The secret of a response without session_type: the decoded mac_key.
PlainSecret(results) ==
    IF "mac_key" \notin DOMAIN results THEN Raised("ProtocolError", "mac_key")
    ELSE IF ~from_b64Ok(results["mac_key"]) THEN Raised("DecodeError", "mac_key")
    ELSE [kind |-> "ok", key |-> "", secret |-> from_b64(results["mac_key"])]

\* DHSecretMod with the hash left out: enc_mac_key xor the shared value's bytes.
DHSecretMod_NoHash(p, results, x) ==
    IF "dh_server_public" \notin DOMAIN results
    THEN Raised("ProtocolError", "dh_server_public")
    ELSE IF ~from_b64Ok(results["dh_server_public"])
    THEN Raised("DecodeError", "dh_server_public")
    ELSE
    LET spub == a2long(from_b64(results["dh_server_public"]))
        dh_shared == decryptKeyExchange(p, x, spub)
    IN  IF "enc_mac_key" \notin DOMAIN results
        THEN Raised("ProtocolError", "enc_mac_key")
        ELSE IF ~from_b64Ok(results["enc_mac_key"])
        THEN Raised("DecodeError", "enc_mac_key")
        ELSE IF ~strxorOk(from_b64(results["enc_mac_key"]), long2a(dh_shared))
        THEN Raised("DecodeError", "enc_mac_key")
        ELSE [kind |-> "ok", key |-> "",
              secret |-> strxor(from_b64(results["enc_mac_key"]),
                                long2a(dh_shared))]

\* The secret of a DH-SHA1 response, for a consumer with modulus p and
\* private key x: enc_mac_key xor sha1(spub^x mod p).
DHSecretMod(p, results, x) ==
    IF "dh_server_public" \notin DOMAIN results
    THEN Raised("ProtocolError", "dh_server_public")
    ELSE IF ~from_b64Ok(results["dh_server_public"])
    THEN Raised("DecodeError", "dh_server_public")
    ELSE
    LET spub == a2long(from_b64(results["dh_server_public"]))
        dh_shared == decryptKeyExchange(p, x, spub)
    IN  IF "enc_mac_key" \notin DOMAIN results
        THEN Raised("ProtocolError", "enc_mac_key")
        ELSE IF ~from_b64Ok(results["enc_mac_key"])
        THEN Raised("DecodeError", "enc_mac_key")
        ELSE IF ~strxorOk(from_b64(results["enc_mac_key"]), sha1(long2a(dh_shared)))
        THEN Raised("DecodeError", "enc_mac_key")
        ELSE [kind |-> "ok", key |-> "",
              secret |-> strxor(from_b64(results["enc_mac_key"]),
                                sha1(long2a(dh_shared)))]

\* The secret of a DH-SHA1 response, with the modulus of get_mod_gen.
DHSecret(results, x) == DHSecretMod(get_mod_gen[1], results, x)

\* ParseResponse with assoc_handle read before assoc_type is checked.
ParseResponse_HandleFirst(server_url, results, x, t) ==
    IF "assoc_type" \notin DOMAIN results
    THEN Raised("ProtocolError", "assoc_type")
    ELSE IF "assoc_handle" \notin DOMAIN results
    THEN Raised("ProtocolError", "assoc_handle")
    ELSE IF results["assoc_type"] # "HMAC-SHA1"
    THEN Raised("RuntimeError", "assoc_type")
    ELSE
    LET assoc_handle == results["assoc_handle"]
        expires_in == IF "expires_in" \in DOMAIN results
                      THEN results["expires_in"] ELSE "0"
        sec == IF "session_type" \notin DOMAIN results
               THEN PlainSecret(results)
               ELSE IF results["session_type"] # "DH-SHA1"
               THEN Raised("RuntimeError", "session_type")
               ELSE DHSecret(results, x)
    IN  IF sec.kind # "ok" THEN Raised(sec.kind, sec.key)
        ELSE IF expires_in \notin IntTexts
        THEN Raised("ValueError", "expires_in")
        ELSE Returned(from_expires_in(expires_in, server_url, assoc_handle,
                                      sec.secret, t))

\* ParseResponse with a session_type other than DH-SHA1 taken for none.
ParseResponse_SessionLax(server_url, results, x, t) ==
    IF "assoc_type" \notin DOMAIN results
    THEN Raised("ProtocolError", "assoc_type")
    ELSE IF results["assoc_type"] # "HMAC-SHA1"
    THEN Raised("RuntimeError", "assoc_type")
    ELSE IF "assoc_handle" \notin DOMAIN results
    THEN Raised("ProtocolError", "assoc_handle")
    ELSE
    LET assoc_handle == results["assoc_handle"]
        expires_in == IF "expires_in" \in DOMAIN results
                      THEN results["expires_in"] ELSE "0"
        sec == IF "session_type" \notin DOMAIN results
               THEN PlainSecret(results)
               ELSE IF results["session_type"] # "DH-SHA1"
               THEN PlainSecret(results)
               ELSE DHSecret(results, x)
    IN  IF sec.kind # "ok" THEN Raised(sec.kind, sec.key)
        ELSE IF expires_in \notin IntTexts
        THEN Raised("ValueError", "expires_in")
        ELSE Returned(from_expires_in(expires_in, server_url, assoc_handle,
                                      sec.secret, t))

\* DiffieHelmanAssociator.associate from the parsed response on: results is
\* the mapping parsekv gives, x the private key drawn from srand, t the clock.
ParseResponse(server_url, results, x, t) ==
    IF "assoc_type" \notin DOMAIN results
    THEN Raised("ProtocolError", "assoc_type")
    ELSE IF results["assoc_type"] # "HMAC-SHA1"
    THEN Raised("RuntimeError", "assoc_type")
    ELSE IF "assoc_handle" \notin DOMAIN results
    THEN Raised("ProtocolError", "assoc_handle")
    ELSE
    LET assoc_handle == results["assoc_handle"]
        expires_in == IF "expires_in" \in DOMAIN results
                      THEN results["expires_in"] ELSE "0"
        sec == IF "session_type" \notin DOMAIN results
               THEN PlainSecret(results)
               ELSE IF results["session_type"] # "DH-SHA1"
               THEN Raised("RuntimeError", "session_type")
               ELSE DHSecret(results, x)
    IN  IF sec.kind # "ok" THEN Raised(sec.kind, sec.key)
        ELSE IF expires_in \notin IntTexts
        THEN Raised("ValueError", "expires_in")
        ELSE Returned(from_expires_in(expires_in, server_url, assoc_handle,
                                      sec.secret, t))

\* ---------------------------------------------------------------- the store
\* get_all: the entries kept for server_url, in the store's order.
get_all(st, server_url) == SelectSeq(st, LAMBDA a : a.server_url = server_url)

\* The entries kept under (server_url, handle).
held(st, server_url, handle) ==
    SelectSeq(st, LAMBDA a : a.server_url = server_url /\ a.handle = handle)

\* remove with the server_url ignored.
remove_AnyUrl(st, server_url, handle) ==
    SelectSeq(st, LAMBDA a : a.handle # handle)

\* Removal of the entry kept under (server_url, handle), if there is one.
remove(st, server_url, handle) ==
    SelectSeq(st, LAMBDA a : ~(a.server_url = server_url /\ a.handle = handle))

RECURSIVE removeAll(_, _)
removeAll(st, olds) ==
    IF Len(olds) = 0 THEN st
    ELSE removeAll(remove(st, olds[1].server_url, olds[1].handle), Tail(olds))

\* update(new_assoc, expired): add new_assoc unless it is None, then expire
\* every association of the list.
update(st, new_assoc, expired) ==
    removeAll(IF new_assoc # None THEN Append(st, new_assoc[1]) ELSE st, expired)

\* ------------------------------------------------------------- the provider
\* The private keys srand may draw, the provider's own private key, and the
\* secret the provider shares.
PrivateKeys == {6, 15}
ServerKey == 9
ServerSecret == <<7>>

Opt(S) == {None} \cup {Some(v) : v \in S}

\* enc_mac_key as the provider computes it for the consumer's public value.
Encrypted(secret, cpub) ==
    to_b64(strxor(secret,
                  sha1(long2a(PowMod(cpub, ServerKey, DEFAULT_MOD)))))

\* The responses a provider may give to Request(x) when it would name the
\* new handle h: every field absent or present, well-formed or not.
Responses(h, x) ==
    [assoc_type : Opt({"HMAC-SHA1", "HMAC-SHA256"}),
     assoc_handle : Opt({h}),
     expires_in : Opt(IntTexts \cup {"x"}),
     session_type : Opt({"DH-SHA1", "DH-SHA256"}),
     mac_key : Opt({to_b64(ServerSecret), <<1, 2, 3>>}),
     dh_server_public :
        Opt({to_b64(long2a(createKeyExchange(DEFAULT_MOD, DEFAULT_GEN, ServerKey)))}),
     enc_mac_key :
        Opt({Encrypted(ServerSecret, a2long(from_b64(Request(x).dh_consumer_public))),
             to_b64(<<1, 2>>)})]

\* parsekv: the mapping from the keys present in the response to their values.
parsekv(resp) == [k \in {k \in Keys : resp[k] # None} |-> resp[k][1]]

\* ------------------------------------------------------------------- state
VARIABLES
    now,     \* int(time.time())
    store,   \* the store's ConsumerAssociations, in the order get_all delivers
    posts,   \* requests posted through http_client so far
    call,    \* per caller: the associate call it is in, with its locals
    last,    \* the operation that ended most recently: what it was given,
             \* what it did and what it returned or raised
    hs,      \* a DiffieHelmanAssociator.associate call made directly
    dh,      \* a Diffie-Hellman exchange between a consumer and a provider
    dumb     \* the calls made on a DumbAssociationManager, with their results

vars == <<now, store, posts, call, last, hs, dh, dumb>>

\* The objects used on their own, outside a BaseAssociationManager.
direct == <<hs, dh, dumb>>

\* No DiffieHelmanAssociator.associate call has been made directly.
NoHandshake ==
    [pc |-> "idle", server_url |-> "", x |-> 0, t |-> 0, sent |-> 0,
     resp |-> None, out |-> None]

\* No exchange has begun.
NoExchange ==
    [pc |-> "idle", p |-> 0, g |-> 0, x |-> 0, request |-> None,
     y |-> 0, secret |-> <<>>, response |-> None, recovered |-> None]

\* The frame of a caller that is in no associate call.
IdleCall ==
    [pc |-> "idle", server_url |-> "", t0 |-> 0, seen |-> <<>>,
     expired |-> <<>>, assoc |-> None, new_assoc |-> None,
     events |-> <<>>, updates |-> <<>>]

\* The record of an operation op that has ended, of a call with frame c:
\* ret is what it returned (None when it raised exception exc).  Of an
\* invalidate, seen is what the store held under the key it was given.
Ended(op, c, ret, exc, key) ==
    [op |-> op, server_url |-> c.server_url, t0 |-> c.t0, seen |-> c.seen,
     expired |-> c.expired, assoc |-> c.assoc, new_assoc |-> c.new_assoc,
     events |-> c.events, updates |-> c.updates, ret |-> ret, exc |-> exc, key |-> key]

Handles == 1..MaxPosts

Init ==
    /\ now = 0
    /\ store = <<>>
    /\ posts = 0
    /\ call = [p \in Procs |-> IdleCall]
    /\ last = Ended("none", IdleCall, None, "", "")
    /\ hs = NoHandshake
    /\ dh = NoExchange
    /\ dumb = <<>>

\* Partition with the reuse branch lost: no cached entry is ever chosen.
Partition_NoReuse(all, t) ==
    [expired |-> SelectSeq(all, LAMBDA a : get_expires_in(a, t) <= 0),
     assoc |-> None]

\* Partition with "< 0" for "<= 0": an entry with no time left counts as good.
Partition_Strict(all, t) ==
    LET fresh == SelectSeq(all, LAMBDA a : ~(get_expires_in(a, t) < 0))
    IN  [expired |-> SelectSeq(all, LAMBDA a : get_expires_in(a, t) < 0),
         assoc |-> IF fresh = <<>> THEN None ELSE Some(fresh[1])]

\* Partition with the last entry that is not expired chosen, not the first.
Partition_LastGood(all, t) ==
    LET fresh == SelectSeq(all, LAMBDA a : ~(get_expires_in(a, t) <= 0))
    IN  [expired |-> SelectSeq(all, LAMBDA a : get_expires_in(a, t) <= 0),
         assoc |-> IF fresh = <<>> THEN None ELSE Some(fresh[Len(fresh)])]

\* Partition with every entry but the chosen one put on the expired list.
Partition_EvictOthers(all, t) ==
    LET fresh == SelectSeq(all, LAMBDA a : ~(get_expires_in(a, t) <= 0))
    IN  [expired |-> IF fresh = <<>> THEN all
                     ELSE SelectSeq(all, LAMBDA a : a # fresh[1]),
         assoc |-> IF fresh = <<>> THEN None ELSE Some(fresh[1])]

\* The loop of BaseAssociationManager.associate over get_all's entries at
\* time t: the expired ones, and the first one that is not.
Partition(all, t) ==
    LET fresh == SelectSeq(all, LAMBDA a : ~(get_expires_in(a, t) <= 0))
    IN  [expired |-> SelectSeq(all, LAMBDA a : get_expires_in(a, t) <= 0),
         assoc |-> IF fresh = <<>> THEN None ELSE Some(fresh[1])]

\* BaseAssociationManager.associate, up to the decision to handshake.
AssocRead(p, u) ==
    /\ call[p].pc = "idle"
    /\ LET all == get_all(store, u)
           part == Partition(all, now)
       IN  call' = [call EXCEPT ![p] =
              [IdleCall EXCEPT !.pc = IF part.assoc = None THEN "handshake"
                                      ELSE "commit",
                               !.server_url = u, !.t0 = now, !.seen = all,
                               !.expired = part.expired,
                               !.assoc = part.assoc,
                               !.events = <<"get_all">>]]
    /\ UNCHANGED <<now, store, posts, last, direct>>

\* What DiffieHelmanAssociator.associate(server_url) may end in at time t
\* when the provider would name the new handle h: one outcome for every
\* private key and every response.
Outcomes(server_url, h, t) ==
    UNION {{ParseResponse(server_url, parsekv(resp), x, t) :
               resp \in Responses(h, x)} : x \in PrivateKeys}

\* Outcomes, tabulated.
OutcomeTable ==
    [u \in Urls, h \in 1..MaxPosts, t \in 0..MaxTime |-> Outcomes(u, h, t)]

\* AssocHandshake with the expired entries removed when the handshake raises.
AssocHandshake_EvictOnRaise(p) ==
    /\ call[p].pc = "handshake"
    /\ posts < MaxPosts
    /\ \E out \in OutcomeTable[call[p].server_url, posts + 1, now] :
          LET c == [call[p] EXCEPT !.events = Append(@, "post")]
          IN  IF out.kind = "ok"
              THEN /\ call' = [call EXCEPT ![p] =
                         [c EXCEPT !.pc = "commit", !.assoc = out.assoc,
                                   !.new_assoc = out.assoc]]
                   /\ last' = last
                   /\ store' = store
              ELSE /\ call' = [call EXCEPT ![p] = IdleCall]
                   /\ last' = Ended("associate", c, None, out.kind, out.key)
                   /\ store' = update(store, None, c.expired)
    /\ posts' = posts + 1
    /\ UNCHANGED <<now, direct>>

\* self.associator.associate(server_url): one post, then the response
\* parsed; an exception leaves BaseAssociationManager.associate at once.
AssocHandshake(p) ==
    /\ call[p].pc = "handshake"
    /\ posts < MaxPosts
    /\ \E out \in OutcomeTable[call[p].server_url, posts + 1, now] :
          LET c == [call[p] EXCEPT !.events = Append(@, "post")]
          IN  IF out.kind = "ok"
              THEN /\ call' = [call EXCEPT ![p] =
                         [c EXCEPT !.pc = "commit", !.assoc = out.assoc,
                                   !.new_assoc = out.assoc]]
                   /\ last' = last
              ELSE /\ call' = [call EXCEPT ![p] = IdleCall]
                   /\ last' = Ended("associate", c, None, out.kind, out.key)
    /\ posts' = posts + 1
    /\ UNCHANGED <<now, store, direct>>

\* The end of BaseAssociationManager.associate for a caller at its last two
\* statements: the update if write holds, and the handle returned.
CommitIf(p, write) ==
    /\ call[p].pc = "commit"
    /\ LET c == call[p]
           d == IF write
                THEN [c EXCEPT !.events = Append(@, "update"),
                               !.updates = Append(@, [new_assoc |-> c.new_assoc,
                                                      expired |-> c.expired])]
                ELSE c
       IN  /\ store' = IF write THEN update(store, c.new_assoc, c.expired)
                       ELSE store
           /\ last' = Ended("associate", d, Some(c.assoc[1].handle), "", "")
    /\ call' = [call EXCEPT ![p] = IdleCall]
    /\ UNCHANGED <<now, posts, direct>>

\* AssocCommit with "if new_assoc:" for "if new_assoc or expired:".
AssocCommit_OnlyNew(p) == CommitIf(p, call[p].new_assoc # None)

\* AssocCommit with "if expired:" for "if new_assoc or expired:".
AssocCommit_OnlyExpired(p) == CommitIf(p, call[p].expired # <<>>)

\* AssocCommit with the update made unconditionally.
AssocCommit_Always(p) == CommitIf(p, TRUE)

\* AssocCommit with the update never made.
AssocCommit_Never(p) == CommitIf(p, FALSE)

\* if new_assoc or expired: self.update(new_assoc, expired); return assoc.handle
AssocCommit(p) ==
    CommitIf(p, call[p].new_assoc # None \/ call[p].expired # <<>>)

\* Some caller is in no associate call, and so may start another operation.
CallerFree == \E p \in Procs : call[p].pc = "idle"

\* FindHandle with the comparison of handles lost: the first entry matches.
FindHandle_Any(associations, assoc_handle) ==
    IF associations = <<>> THEN None ELSE Some(associations[1])

\* The scan of BaseAssociationManager.get_association.
FindHandle(associations, assoc_handle) ==
    LET hits == SelectSeq(associations, LAMBDA a : a.handle = assoc_handle)
    IN  IF hits = <<>> THEN None ELSE Some(hits[1])

\* BaseAssociationManager.get_association
GetAssociation(u, h) ==
    /\ CallerFree
    /\ last' = Ended("get_association", IdleCall,
                     FindHandle(get_all(store, u), h), "", "")
    /\ UNCHANGED <<now, store, posts, call, direct>>

\* invalidate, as the store's subclasses are to implement it.
Invalidate(u, h) ==
    /\ CallerFree
    /\ store' = remove(store, u, h)
    /\ last' = Ended("invalidate",
                     [IdleCall EXCEPT !.seen = held(store, u, h)],
                     None, "", "")
    /\ UNCHANGED <<now, posts, call, direct>>

\* A second passes.
Tick ==
    /\ now < MaxTime
    /\ now' = now + 1
    /\ UNCHANGED <<store, posts, call, last, direct>>

Next ==
    \/ \E p \in Procs, u \in Urls : AssocRead(p, u)
    \/ \E p \in Procs : AssocHandshake(p)
    \/ \E p \in Procs : AssocCommit(p)
    \/ \E u \in Urls, h \in Handles : GetAssociation(u, h)
    \/ \E u \in Urls, h \in Handles : Invalidate(u, h)
    \/ Tick

Spec == Init /\ [][Next]_vars

\* ---------------------------------------------------------- sequential use
\* No caller is inside an associate call.
Quiet == \A q \in Procs : call[q].pc = "idle"

\* SeqAssocRead with calls allowed to overlap.
SeqAssocRead_Overlapping(p, u) == AssocRead(p, u)

SeqAssocRead(p, u) == Quiet /\ AssocRead(p, u)
SeqGetAssociation(u, h) == Quiet /\ GetAssociation(u, h)
SeqInvalidate(u, h) == Quiet /\ Invalidate(u, h)

\* The operations of one manager, no two of them overlapping.
SeqNext ==
    \/ \E p \in Procs, u \in Urls : SeqAssocRead(p, u)
    \/ \E p \in Procs : AssocHandshake(p)
    \/ \E p \in Procs : AssocCommit(p)
    \/ \E u \in Urls, h \in Handles : SeqGetAssociation(u, h)
    \/ \E u \in Urls, h \in Handles : SeqInvalidate(u, h)
    \/ Tick

SeqSpec == Init /\ [][SeqNext]_vars

\* ---------------------------------- DiffieHelmanAssociator, used directly
\* associate(server_url) up to the post: the private key x is drawn from
\* srand, the request built and posted.
HsPost(u, x) ==
    /\ hs.pc \in {"idle", "done"}
    /\ posts < MaxPosts
    /\ posts' = posts + 1
    /\ hs' = [NoHandshake EXCEPT !.pc = "posted", !.server_url = u, !.x = x,
                                 !.sent = 1]
    /\ UNCHANGED <<now, store, call, last, dh, dumb>>

\* HsReply with a second post after a response that raises.
HsReply_Retry ==
    /\ hs.pc = "posted"
    /\ \E resp \in Responses(posts, hs.x) :
          LET out == ParseResponse(hs.server_url, parsekv(resp), hs.x, now)
          IN  /\ hs' = [hs EXCEPT !.pc = "done", !.t = now,
                                  !.resp = Some(resp), !.out = Some(out),
                                  !.sent = IF out.kind = "ok" THEN @ ELSE @ + 1]
              /\ posts' = IF out.kind = "ok" THEN posts ELSE posts + 1
    /\ UNCHANGED <<now, store, call, last, dh, dumb>>

\* associate(server_url) from the response on: it is parsed, and the call
\* returns an association or raises.
HsReply ==
    /\ hs.pc = "posted"
    /\ \E resp \in Responses(posts, hs.x) :
          hs' = [hs EXCEPT !.pc = "done", !.t = now, !.resp = Some(resp),
                           !.out = Some(ParseResponse(hs.server_url,
                                                      parsekv(resp), hs.x, now))]
    /\ UNCHANGED <<now, store, posts, call, last, dh, dumb>>

HsNext ==
    \/ \E u \in Urls, x \in PrivateKeys : HsPost(u, x)
    \/ HsReply
    \/ Tick

\* Calls of one DiffieHelmanAssociator, one after the other.
HandshakeSpec == Init /\ [][HsNext]_vars

\* -------------------------------------------------- DumbAssociationManager
\* At most MaxDumbCalls calls are made on the DumbAssociationManager.
MaxDumbCalls == 3

\* A call on the manager that has returned ret.
DumbCall(op, server_url, assoc_handle, ret) ==
    [op |-> op, server_url |-> server_url, assoc_handle |-> assoc_handle,
     ret |-> ret]

\* DumbAssociationManager.get_association
DumbGetAssociation(u, h) ==
    /\ Len(dumb) < MaxDumbCalls
    /\ dumb' = Append(dumb, DumbCall("get_association", u, h, None))
    /\ UNCHANGED <<now, store, posts, call, last, hs, dh>>

\* DumbAssociate as a manager that runs a handshake and keeps its result.
DumbAssociate_Caching(u) ==
    /\ Len(dumb) < MaxDumbCalls
    /\ posts' = posts + 1
    /\ store' = Append(store, ConsumerAssociation(u, posts + 1, ServerSecret,
                                                  now, 1))
    /\ dumb' = Append(dumb, DumbCall("associate", u, 0, Some(posts + 1)))
    /\ UNCHANGED <<now, call, last, hs, dh>>

\* DumbAssociationManager.associate
DumbAssociate(u) ==
    /\ Len(dumb) < MaxDumbCalls
    /\ dumb' = Append(dumb, DumbCall("associate", u, 0, None))
    /\ UNCHANGED <<now, store, posts, call, last, hs, dh>>

\* DumbAssociationManager.invalidate
DumbInvalidate(u, h) ==
    /\ Len(dumb) < MaxDumbCalls
    /\ dumb' = Append(dumb, DumbCall("invalidate", u, h, None))
    /\ UNCHANGED <<now, store, posts, call, last, hs, dh>>

DumbNext ==
    \/ \E u \in Urls, h \in Handles : DumbGetAssociation(u, h)
    \/ \E u \in Urls : DumbAssociate(u)
    \/ \E u \in Urls, h \in Handles : DumbInvalidate(u, h)

\* The calls made on one DumbAssociationManager.
DumbSpec == Init /\ [][DumbNext]_vars

\* ------------------------------------------------- the key exchange alone
\* Private exponents run from 1 to MaxExp.
MaxExp == 4
Exponents == 1..MaxExp
\* The (modulus, generator) pairs get_mod_gen may be overridden to give.
Moduli == {7, 11, 23}
Generators == {2, 3, 5}
\* The secrets a provider may share: as long as a digest.
Secrets == {<<0>>, <<7>>, <<255>>}

\* The consumer draws x and builds its request.
DHRequest(p, g, x) ==
    /\ dh.pc \in {"idle", "done"}
    /\ dh' = [NoExchange EXCEPT !.pc = "requested", !.p = p, !.g = g, !.x = x,
                                !.request = Some(RequestMod(p, g, x))]
    /\ UNCHANGED <<now, store, posts, call, last, hs, dumb>>

\* What a provider with private exponent y answers to request req to share
\* secret s: dh_server_public = g^y mod p, enc_mac_key = s xor
\* sha1(cpub^y mod p), both in base64.
ProviderReply(req, y, s) ==
    LET p == a2long(from_b64(req.dh_modulus))
        g == a2long(from_b64(req.dh_gen))
        cpub == a2long(from_b64(req.dh_consumer_public))
    IN  [dh_server_public |-> to_b64(long2a(PowMod(g, y, p))),
         enc_mac_key |-> to_b64(strxor(s, sha1(long2a(PowMod(cpub, y, p)))))]

\* The provider draws y and answers with the secret s encrypted.
DHRespond(y, s) ==
    /\ dh.pc = "requested"
    /\ dh' = [dh EXCEPT !.pc = "responded", !.y = y, !.secret = s,
                        !.response = Some(ProviderReply(dh.request[1], y, s))]
    /\ UNCHANGED <<now, store, posts, call, last, hs, dumb>>

\* The consumer recovers the secret from the response.
DHRecover ==
    /\ dh.pc = "responded"
    /\ dh' = [dh EXCEPT !.pc = "done",
                        !.recovered = Some(DHSecretMod(dh.p, dh.response[1], dh.x))]
    /\ UNCHANGED <<now, store, posts, call, last, hs, dumb>>

DHNext ==
    \/ \E p \in Moduli, g \in Generators, x \in Exponents : DHRequest(p, g, x)
    \/ \E y \in Exponents, s \in Secrets : DHRespond(y, s)
    \/ DHRecover

\* Key exchanges between a consumer and a provider, one after the other.
DHSpec == Init /\ [][DHNext]_vars

\* =================================================================== claims
\* An association is still good at time t: its lifetime has not run out.
NotExpired(a, t) == a.issued + a.lifetime - t > 0

\* The entries of a list that are still good, and those that are not, at t.
GoodAt(all, t) == SelectSeq(all, LAMBDA a : NotExpired(a, t))
StaleAt(all, t) == SelectSeq(all, LAMBDA a : ~NotExpired(a, t))

\* The most recent operation to end was an associate call that returned.
AssocReturned == last.op = "associate" /\ last.ret # None
\* ... or one that the handshake's exception ended.
AssocRaised == last.op = "associate" /\ last.exc # ""

\* Caller p's associate call returns in this step.
ReturnStep(p) == call[p].pc = "commit" /\ call'[p].pc = "idle"
\* Caller p's associate call runs its handshake in this step.
HandshakeStep(p) == call[p].pc = "handshake" /\ call'[p].pc # "handshake"

\* C1: associate(server_url) never returns the handle of an association
\* whose expires_in is <= 0 at the time of the call, be it a cached entry
\* or one the handshake has just created.
C1_NeverReturnsExpired ==
    AssocReturned =>
        /\ last.ret = Some(last.assoc[1].handle)
        /\ get_expires_in(last.assoc[1], last.t0) > 0

\* C2: in sequential use, an associate call that finds a non-expired entry
\* cached for server_url posts no handshake; and when such a call has
\* returned and a second associate call for the same server_url follows at
\* once (no other operation, no time passing), the second posts no
\* handshake either and returns the same handle.
C2_Idempotent ==
    [][\A q \in Procs :
          ReturnStep(q) =>
             /\ GoodAt(call[q].seen, call[q].t0) # <<>>
                   => "post" \notin Range(last'.events)
             /\ (/\ AssocReturned
                 /\ last.server_url = call[q].server_url
                 /\ last.t0 = now
                 /\ GoodAt(last.seen, last.t0) # <<>>)
                => /\ "post" \notin Range(last.events)
                   /\ "post" \notin Range(last'.events)
                   /\ last'.ret = last.ret]_vars

\* C2 witness: the first call has returned a cached handle and the second,
\* started at once, has read the store and is about to return.
C2_Witness ==
    \E q \in Procs :
        /\ call[q].pc = "commit"
        /\ call[q].new_assoc = None
        /\ AssocReturned
        /\ last.server_url = call[q].server_url
        /\ last.t0 = now
        /\ GoodAt(last.seen, last.t0) # <<>>

BadTypeOutcomes ==
    [u \in Urls, h \in 1..MaxPosts, t \in 0..MaxTime |->
        UNION {{ParseResponse(u, parsekv(resp), x, t) :
                   resp \in {r \in Responses(h, x) :
                               r.assoc_type \notin {None, Some("HMAC-SHA1")}}} :
               x \in PrivateKeys}]

\* What the handshake of caller p ended in, in a step that ran it.
StepOutcome(p) ==
    IF call'[p].pc = "commit" THEN Returned(call'[p].new_assoc[1])
    ELSE Raised(last'.exc, last'.key)

\* C4: a response that carries an assoc_type other than HMAC-SHA1 ends the
\* handshake in the fatal error (RuntimeError, never ProtocolError, whatever
\* else is missing); no association is returned, associate ends there and
\* the store is left as it was.
C4_BadAssocType ==
    [][\A p \in Procs :
          (/\ HandshakeStep(p)
           /\ StepOutcome(p) \in
                 BadTypeOutcomes[call[p].server_url, posts + 1, now])
          => /\ last'.op = "associate"
             /\ last'.exc = "RuntimeError"
             /\ last'.ret = None
             /\ last'.new_assoc = None
             /\ call'[p] = IdleCall
             /\ store' = store]_vars

\* C4 witness: an associate call has ended in the fatal error about
\* assoc_type.
C4_Witness ==
    /\ AssocRaised
    /\ last.exc = "RuntimeError"
    /\ last.key = "assoc_type"
    /\ "update" \notin Range(last.events)

\* C5: a call that commits a new association leaves in the store every
\* entry for its server_url that is not expired, so that two calls that both
\* read before either wrote both add an entry.
C5_CommitsAccumulate ==
    [][\A p \in Procs :
          (ReturnStep(p) /\ call[p].new_assoc # None)
          => /\ call[p].new_assoc[1] \in Range(store')
             /\ \A b \in Range(get_all(store, call[p].server_url)) :
                   NotExpired(b, now) => b \in Range(store')]_vars

\* C5 witness: two calls for one server_url have each found nothing valid,
\* run a handshake and committed: the store holds two non-expired entries
\* for it.
C5_Witness ==
    /\ AssocReturned
    /\ last.new_assoc # None
    /\ GoodAt(last.seen, last.t0) = <<>>
    /\ Len(GoodAt(get_all(store, last.server_url), now)) > 1
    /\ last.new_assoc[1] \in Range(GoodAt(store, now))

\* The entries of a store kept for server_url under handle.
WithHandle(st, server_url, handle) ==
    {a \in Range(st) : a.server_url = server_url /\ a.handle = handle}

\* C6: get_association(server_url, handle) returns None, raising nothing,
\* when no entry cached for server_url has that handle; otherwise it returns
\* an entry cached for server_url with that handle, expired or not.  It
\* leaves the store alone, posts no handshake and starts no associate call.
C6_GetAssociation ==
    [][\A u \in Urls, h \in Handles :
          GetAssociation(u, h)
          => /\ last'.op = "get_association"
             /\ last'.exc = ""
             /\ WithHandle(store, u, h) = {} => last'.ret = None
             /\ WithHandle(store, u, h) # {} =>
                   /\ last'.ret # None
                   /\ last'.ret[1] \in WithHandle(store, u, h)
             /\ store' = store
             /\ posts' = posts
             /\ call' = call]_vars

\* C6 witness: get_association has returned an entry that is expired, while
\* the store keeps entries under other handles too.
C6_Witness ==
    /\ last.op = "get_association"
    /\ last.ret # None
    /\ ~NotExpired(last.ret[1], now)
    /\ last.ret[1] \in Range(store)
    /\ \E a \in Range(store) : a.handle # last.ret[1].handle

WritesDue(c) ==
    IF c.new_assoc # None \/ StaleAt(c.seen, c.t0) # <<>>
    THEN <<[new_assoc |-> c.new_assoc, expired |-> StaleAt(c.seen, c.t0)]>>
    ELSE <<>>

\* The events of a call in their order: the read, the handshake if there
\* was one, the update if there was one.
EventsDue(c) ==
    <<"get_all">>
    \o (IF "post" \in Range(c.events) THEN <<"post">> ELSE <<>>)
    \o (IF c.updates # <<>> THEN <<"update">> ELSE <<>>)

Count(events, e) == Cardinality({i \in 1..Len(events) : events[i] = e})

\* C9: an associate call that has ended ran the handshake exactly once if
\* get_all delivered no non-expired entry and not at all if it delivered
\* one; the handshake came after the read and before the update.
C9_HandshakeIffNoneGood ==
    last.op = "associate" =>
        /\ Count(last.events, "post") =
              (IF GoodAt(last.seen, last.t0) = <<>> THEN 1 ELSE 0)
        /\ last.events[1] = "get_all"
        /\ Count(last.events, "get_all") = 1
        /\ \A i \in 1..Len(last.events) :
              last.events[i] = "post" =>
                 /\ i = 2
                 /\ \A j \in 1..Len(last.events) :
                       last.events[j] = "update" => j > i

\* C9 witness: a call that found only expired entries has posted its
\* handshake, updated the store and returned.
C9_Witness ==
    /\ AssocReturned
    /\ last.seen # <<>>
    /\ GoodAt(last.seen, last.t0) = <<>>
    /\ last.events = <<"get_all", "post", "update">>

\* Every association the program holds: in the store or in a call.
Held ==
    Range(store)
    \cup UNION {Range(call[p].seen) \cup Range(call[p].assoc) : p \in Procs}

\* C10: expires_in is never negative; it is issued + lifetime - now while
\* that is positive and 0 from then on; it never grows as the clock moves,
\* so an expired association stays expired.
C10_ExpiresInMonotone ==
    [][/\ now' >= now
       /\ \A a \in Held :
             /\ get_expires_in(a, now) >= 0
             /\ get_expires_in(a, now') >= 0
             /\ get_expires_in(a, now') <= get_expires_in(a, now)
             /\ NotExpired(a, now') =>
                   get_expires_in(a, now') = a.issued + a.lifetime - now'
             /\ ~NotExpired(a, now') => get_expires_in(a, now') = 0
             /\ get_expires_in(a, now) = 0 => get_expires_in(a, now') = 0]_vars

\* C10 witness: the store holds an association whose lifetime ran out before
\* now (issued + lifetime - now is negative), its expires_in held at 0.
C10_Witness ==
    \E a \in Range(store) :
        /\ a.issued + a.lifetime - now < 0
        /\ get_expires_in(a, now) = 0

\* The direct associate call has ended; the response it was given and what
\* it ended in.
HsDone == hs.pc = "done"
Resp == hs.resp[1]
Out == hs.out[1]

\* The fields C11 requires of response r, and those of them r lacks.
Required(r) ==
    {"assoc_type", "assoc_handle"}
    \cup (IF r.session_type = None THEN {"mac_key"} ELSE {})
    \cup (IF r.session_type = Some("DH-SHA1")
          THEN {"dh_server_public", "enc_mac_key"} ELSE {})
Missing(r) == {k \in Required(r) : r[k] = None}

\* The handshake gets to read field k of response r: every check the code
\* makes before it reads k has passed.
Reached(r, k) ==
    CASE k = "assoc_type" -> TRUE
      [] k = "assoc_handle" -> r.assoc_type = Some("HMAC-SHA1")
      [] k = "mac_key" ->
            /\ r.assoc_type = Some("HMAC-SHA1")
            /\ r.assoc_handle # None
            /\ r.session_type = None
      [] k = "dh_server_public" ->
            /\ r.assoc_type = Some("HMAC-SHA1")
            /\ r.assoc_handle # None
            /\ r.session_type = Some("DH-SHA1")
      [] k = "enc_mac_key" ->
            /\ r.assoc_type = Some("HMAC-SHA1")
            /\ r.assoc_handle # None
            /\ r.session_type = Some("DH-SHA1")
            /\ r.dh_server_public # None
            /\ from_b64Ok(r.dh_server_public[1])

\* C11 as stated: a handshake whose response lacks a required field ends in
\* a protocol error that names a field the response lacks, and yields no
\* association.
C11_MissingIsProtocolError ==
    (HsDone /\ Missing(Resp) # {}) =>
        /\ Out.kind = "ProtocolError"
        /\ Out.key \in Missing(Resp)
        /\ Out.assoc = None

\* C11, amended: a handshake that gets to read a required field the response
\* lacks (no earlier check has failed: assoc_type is HMAC-SHA1 before
\* assoc_handle is read, dh_server_public decodes before enc_mac_key is
\* read) ends in a protocol error naming that field and yields no
\* association; a protocol error always names a required field that is
\* missing; a missing expires_in is never the error, the lifetime is 0.
C11_FirstMissingIsProtocolError ==
    HsDone =>
        /\ \A k \in Missing(Resp) :
              Reached(Resp, k) => Out = Raised("ProtocolError", k)
        /\ Out.kind = "ProtocolError" =>
              /\ Out.key \in Missing(Resp)
              /\ Reached(Resp, Out.key)
              /\ Out.assoc = None
        /\ Resp.expires_in = None =>
              /\ Out.key # "expires_in"
              /\ (Missing(Resp) = {} /\ Out.kind = "ok")
                    => Out.assoc[1].lifetime = 0

\* C11 witness: a DH-SHA1 response without enc_mac_key and without
\* expires_in has ended the handshake in the protocol error about
\* enc_mac_key.
C11_Witness ==
    /\ HsDone
    /\ Resp.expires_in = None
    /\ Resp.enc_mac_key = None
    /\ Out = Raised("ProtocolError", "enc_mac_key")

\* expires_in as the handshake reads it.
ExpiresText(r) == IF r.expires_in = None THEN "0" ELSE r.expires_in[1]

\* C12: once assoc_type and assoc_handle have been accepted, the handshake
\* branches on session_type three ways.  Absent: the secret is the decoded
\* mac_key, and the outcome is the same whatever dh_server_public and
\* enc_mac_key are.  DH-SHA1: the secret is the decoded enc_mac_key xor
\* sha1(spub^x mod p).  Any other value: the fatal error, no association.
\* An association that is returned has the server_url asked for, the
\* response's assoc_handle, issued = the time of the call (hs.t) and
\* lifetime = expires_in.
C12_SessionBranches ==
    (HsDone /\ Resp.assoc_type = Some("HMAC-SHA1") /\ Resp.assoc_handle # None)
    =>
    /\ Resp.session_type = None =>
          /\ (/\ Resp.mac_key # None
              /\ from_b64Ok(Resp.mac_key[1])
              /\ ExpiresText(Resp) \in IntTexts)
             => /\ Out.kind = "ok"
                /\ Out.assoc[1].secret = from_b64(Resp.mac_key[1])
          /\ Out = ParseResponse(hs.server_url,
                                 parsekv([Resp EXCEPT !.dh_server_public = None,
                                                      !.enc_mac_key = None]),
                                 hs.x, hs.t)
    /\ (/\ Resp.session_type = Some("DH-SHA1")
        /\ Resp.dh_server_public # None
        /\ from_b64Ok(Resp.dh_server_public[1])
        /\ Resp.enc_mac_key # None
        /\ from_b64Ok(Resp.enc_mac_key[1])
        /\ Len(from_b64(Resp.enc_mac_key[1])) = Len(sha1(<<>>))
        /\ ExpiresText(Resp) \in IntTexts)
       => /\ Out.kind = "ok"
          /\ Out.assoc[1].secret =
                strxor(from_b64(Resp.enc_mac_key[1]),
                       sha1(long2a(PowMod(a2long(from_b64(Resp.dh_server_public[1])),
                                          hs.x, DEFAULT_MOD))))
    /\ Resp.session_type \notin {None, Some("DH-SHA1")} =>
          Out = Raised("RuntimeError", "session_type")
    /\ Out.kind = "ok" =>
          /\ Resp.session_type \in {None, Some("DH-SHA1")}
          /\ Out.assoc[1].server_url = hs.server_url
          /\ Out.assoc[1].handle = Resp.assoc_handle[1]
          /\ Out.assoc[1].issued = hs.t
          /\ Out.assoc[1].lifetime = ParseInt(ExpiresText(Resp))

\* C12 witness: a DH-SHA1 response has given an association, issued after
\* the clock has moved, with a lifetime and the provider's secret.
C12_Witness ==
    /\ HsDone
    /\ Resp.session_type = Some("DH-SHA1")
    /\ Out.kind = "ok"
    /\ Out.assoc[1].secret = ServerSecret
    /\ Out.assoc[1].issued > 0
    /\ Out.assoc[1].lifetime > 0

\* C13: DH round trip.  For every modulus p, generator g, consumer exponent
\* x and provider exponent y of the bounded sets and every secret s: when
\* the provider answers dh_server_public = g^y mod p and enc_mac_key =
\* s xor sha1((g^x)^y mod p), the secret the consumer recovers
\* (enc_mac_key xor sha1(spub^x mod p)) is s.
C13_DHRoundTrip ==
    dh.pc = "done" =>
        /\ dh.recovered[1].kind = "ok"
        /\ dh.recovered[1].secret = dh.secret

\* C13 witness: an exchange with a modulus other than the default, distinct
\* exponents and an enc_mac_key that differs from the plain secret has given
\* the consumer the secret.
C13_Witness ==
    /\ dh.pc = "done"
    /\ dh.p # DEFAULT_MOD
    /\ dh.x # dh.y
    /\ dh.response[1].enc_mac_key # to_b64(dh.secret)
    /\ dh.recovered[1].kind = "ok"
    /\ dh.recovered[1].secret = <<255>>

\* C14: a direct associate call posts once, before the response is read;
\* from the response on, whether it returns an association or raises any of
\* its errors, it posts nothing more and leaves the store alone.
C14_OnePostPerCall ==
    [][/\ (hs.pc # "posted" /\ hs'.pc = "posted") =>
             /\ posts' = posts + 1
             /\ store' = store
       /\ (hs.pc = "posted" /\ hs'.pc = "done") =>
             /\ posts' = posts
             /\ hs'.sent = 1
             /\ store' = store]_vars

\* C14 witness: a second call has ended in an error after the first ended
\* in an association, two posts in all.
C14_Witness ==
    /\ HsDone
    /\ Out.kind \notin {"ok", "ProtocolError"}
    /\ hs.sent = 1
    /\ posts = 2
    /\ Resp.assoc_handle = Some(2)

\* C15: after any sequence of calls on a DumbAssociationManager, every
\* get_association has returned None (not found), every associate has
\* returned None (no association), every invalidate has done nothing; no
\* handshake was posted and the store was neither read nor written.
C15_DumbStateless ==
    /\ \A i \in 1..Len(dumb) : dumb[i].ret = None
    /\ posts = 0
    /\ store = <<>>
    /\ hs = NoHandshake
    /\ \A p \in Procs : call[p] = IdleCall

\* C15 witness: the three operations have been called, associate last.
C15_Witness ==
    /\ Len(dumb) = 3
    /\ {dumb[i].op : i \in 1..Len(dumb)} =
          {"get_association", "associate", "invalidate"}
    /\ dumb[3].op = "associate"
    /\ dumb[3].ret = None

\* C16: an associate call that found non-expired entries returns the handle
\* of the first of them in get_all's order and posts nothing; its return
\* leaves every entry of the store in place, in order, except those that
\* were expired when it read; and what it hands to update for removal are
\* entries it read that were expired then.
C16_FirstGoodSelected ==
    [][\A p \in Procs :
          ReturnStep(p) =>
             LET c == call[p]
                 good == GoodAt(c.seen, c.t0)
                 stale == StaleAt(c.seen, c.t0)
                 kept(st) == SelectSeq(st, LAMBDA a : a \notin Range(stale))
                 old(st) == SelectSeq(st, LAMBDA a : Some(a) # c.new_assoc)
             IN  /\ good # <<>> =>
                       /\ last'.ret = Some(good[1].handle)
                       /\ c.new_assoc = None
                       /\ "post" \notin Range(last'.events)
                 /\ old(store') = kept(store)
                 /\ \A a \in Range(good) : a \in Range(store) => a \in Range(store')
                 /\ \A w \in Range(last'.updates) :
                       \A a \in Range(w.expired) :
                          a \in Range(c.seen) /\ ~NotExpired(a, c.t0)]_vars

\* C16 witness: a call that found two non-expired entries has returned the
\* handle of the first, and both are still in the store.
C16_Witness ==
    /\ AssocReturned
    /\ Len(GoodAt(last.seen, last.t0)) > 1
    /\ last.ret = Some(GoodAt(last.seen, last.t0)[1].handle)
    /\ last.ret # Some(GoodAt(last.seen, last.t0)[2].handle)
    /\ \A a \in Range(GoodAt(last.seen, last.t0)) : a \in Range(store)

\* The exceptions a handshake may raise.
HandshakeErrors == {"ProtocolError", "RuntimeError", "DecodeError", "ValueError"}

\* C17: no step of an associate call before its commit writes the store,
\* and a handshake that raises ends the call there: update is not called,
\* the store is as it was, the expired entries the call had found are
\* still in it and no new entry has been added.
C17_RaiseLeavesStore ==
    [][\A p \in Procs :
          /\ (call[p].pc = "idle" /\ call'[p].pc # "idle") => store' = store
          /\ (HandshakeStep(p) /\ call'[p].pc = "idle") =>
                /\ last'.op = "associate"
                /\ last'.exc \in HandshakeErrors
                /\ last'.ret = None
                /\ last'.updates = <<>>
                /\ "update" \notin Range(last'.events)
                /\ last'.new_assoc = None
                /\ store' = store
                /\ \A a \in Range(call[p].expired) :
                      a \in Range(store) => a \in Range(store')]_vars

\* C17 witness: a call that had found an expired entry has ended in a
\* decoding error, and the entry is still in the store.
C17_Witness ==
    /\ AssocRaised
    /\ last.exc = "DecodeError"
    /\ last.expired # <<>>
    /\ \A a \in Range(last.expired) : a \in Range(store)

\* C18: in sequential use the store never holds more than one non-expired
\* entry for a server_url.
C18_OneGoodPerUrl ==
    \A u \in Urls : Len(GoodAt(get_all(store, u), now)) <= 1

\* C18 witness: a call that found only an expired entry has replaced it by
\* a new one, the one non-expired entry for its server_url.
C18_Witness ==
    /\ AssocReturned
    /\ last.seen # <<>>
    /\ last.new_assoc # None
    /\ GoodAt(get_all(store, last.server_url), now) = <<last.new_assoc[1]>>

\* C19: in sequential use, a get_association(server_url, h) that follows at
\* once an associate(server_url) that returned h returns an entry, with
\* handle h and that server_url, whether the entry was reused or new.
C19_ReturnedHandleFound ==
    [][\A u \in Urls, h \in Handles :
          (/\ GetAssociation(u, h)
           /\ AssocReturned
           /\ last.server_url = u
           /\ last.ret = Some(h))
          => /\ last'.op = "get_association"
             /\ last'.ret # None
             /\ last'.ret[1].handle = h
             /\ last'.ret[1].server_url = u]_vars

\* C19 witness: after the one handshake of the behaviour, get_association
\* has returned the entry that associate created and committed, the only
\* entry of the store.
C19_Witness ==
    /\ last.op = "get_association"
    /\ last.ret # None
    /\ posts = 1
    /\ store = <<last.ret[1]>>
    /\ Quiet

\* C20: the return of an associate call removes from the store only
\* entries for its server_url that were expired when it read them and are
\* expired now, adds at most its new association, for its server_url, and
\* leaves the entries of every other server_url as they are; no other step
\* of an associate call changes the store.
C20_OnlyExpiredRemoved ==
    [][\A p \in Procs :
          /\ ReturnStep(p) =>
                LET c == call[p]
                IN  /\ \A a \in Range(store) \ Range(store') :
                          /\ a \in Range(c.expired)
                          /\ a.server_url = c.server_url
                          /\ ~NotExpired(a, c.t0)
                          /\ ~NotExpired(a, now)
                          /\ get_expires_in(a, now) = 0
                    /\ \A a \in Range(store') \ Range(store) :
                          /\ Some(a) = c.new_assoc
                          /\ a.server_url = c.server_url
                    /\ \A u \in Urls \ {c.server_url} :
                          get_all(store', u) = get_all(store, u)
          /\ (call'[p] # call[p] /\ ~ReturnStep(p)) => store' = store]_vars

\* C20 witness: while another caller is in a call that read the same
\* expired entry, a call has returned, that entry removed and the new
\* association in the store.
C20_Witness ==
    /\ AssocReturned
    /\ last.expired # <<>>
    /\ \A a \in Range(last.expired) : a \notin Range(store)
    /\ last.new_assoc # None
    /\ last.new_assoc[1] \in Range(store)
    /\ \E q \in Procs :
          call[q].pc = "handshake" /\ call[q].expired = last.expired

====
